---------------------------- MODULE Spec2Model ----------------------------
(***************************************************************************)
(* A model of the image deblurring pipeline: the point spread functions    *)
(* of point_spread_functions.py (gaussian, defocus, reshape_psf), the      *)
(* noise generator of image_noise.py and the pipeline of deblurring.py     *)
(* (apply_psf, save_images, image_deblurring).                             *)
(*                                                                         *)
(* Numbers are exact rationals <<numerator, denominator>>; a denominator   *)
(* of 0 marks a non-finite or overflow-scale float (Inf, NaN, 1/tiny).     *)
(* Arrays are indexed from 0 as in the source.                             *)
(***************************************************************************)
EXTENDS Integers, Sequences, FiniteSets, TLC

VARIABLES
    config,           \* the dict returned by parse_config
    input_file,       \* what the storage holds at config["input_image"]
    pc,               \* position inside image_deblurring
    heap,             \* the numpy image arrays allocated so far, by identity
    image,            \* reference (heap index) bound to `image`
    blurred_image,    \* reference bound to `blurred_image`
    deblurred_image,  \* reference bound to `deblurred_image`
    psf,              \* the operator returned by config["psf"](...)
    sig,              \* the smallest singular value np.linalg.svd reported, by kind
    psf_inverse,      \* vT.T @ inv(sig_2d) @ u.T
    noise_log,        \* the calls of gaussian_noise made so far
    files,            \* which output files exist
    raised,           \* the exception that ended the run, or "none"
    shown,            \* whether the three windows were displayed
    call,             \* a direct call of a function of point_spread_functions
    ret               \* what that call returned or raised

pvars == <<config, input_file, pc, heap, image, blurred_image, deblurred_image,
           psf, sig, psf_inverse, noise_log, files, raised, shown>>
cvars == <<call, ret>>
vars == <<config, input_file, pc, heap, image, blurred_image, deblurred_image,
          psf, sig, psf_inverse, noise_log, files, raised, shown, call, ret>>

---------------------------------------------------------------------------
(* Bounds of the model. *)

\* image heights are 1..MaxSize
MaxSize == 2
\* kernel lengths n are -1..MaxN
MaxN == 3
\* shape parameters (sigma, r) are -1..MaxParam in a run and -1..MaxParam + 1
\* in a direct call
MaxParam == 1
\* kernels handed directly to reshape_psf have length 0..MaxLen
MaxLen == 4

\* math.pi, as the rational PiNum / PiDen
PiNum == 355
PiDen == 113

---------------------------------------------------------------------------
(* Exact rational arithmetic. *)

RECURSIVE GCD(_, _)
GCD(a, b) == IF b = 0 THEN a ELSE GCD(b, a % b)

Abs(x) == IF x < 0 THEN -x ELSE x

\* the non-finite value: Inf, NaN, or a float of overflow scale
Huge == <<1, 0>>
IsFinite(x) == x[2] # 0

Rat(n, d) ==
    IF d = 0 THEN Huge
    ELSE LET g == GCD(Abs(n), Abs(d))
             s == IF d < 0 THEN -1 ELSE 1
         IN  <<s * (n \div g), s * (d \div g)>>

RInt(n) == <<n, 1>>
RZero == <<0, 1>>
ROne == <<1, 1>>

RAdd(x, y) ==
    IF ~IsFinite(x) \/ ~IsFinite(y) THEN Huge
    ELSE LET g == GCD(x[2], y[2])
         IN  Rat(x[1] * (y[2] \div g) + y[1] * (x[2] \div g), (x[2] \div g) * y[2])

RMul(x, y) ==
    IF ~IsFinite(x) \/ ~IsFinite(y) THEN Huge
    ELSE LET g1 == GCD(Abs(x[1]), y[2])
             g2 == GCD(Abs(y[1]), x[2])
         IN  Rat((x[1] \div g1) * (y[1] \div g2), (x[2] \div g2) * (y[2] \div g1))

RNeg(x) == IF IsFinite(x) THEN <<-x[1], x[2]>> ELSE Huge
RSub(x, y) == RAdd(x, RNeg(y))

\* 1 / x for a finite x # 0
RInv(x) == Rat(x[2], x[1])

---------------------------------------------------------------------------
(* Vectors and matrices, indexed from 0. *)

Range(n) == 0 .. (n - 1)

ZerosMatrix(h, w) == [i \in Range(h) |-> [j \in Range(w) |-> RZero]]

Height(m) == Cardinality(DOMAIN m)
Width(m) == IF Height(m) = 0 THEN 0 ELSE Cardinality(DOMAIN m[0])

RECURSIVE DotFrom(_, _, _, _)
DotFrom(a, b, col, k) ==
    IF k = Cardinality(DOMAIN a) THEN RZero
    ELSE RAdd(RMul(a[k], b[k][col]), DotFrom(a, b, col, k + 1))

\* np.matmul of two 2-D arrays
MatMul(a, b) ==
    [i \in DOMAIN a |-> [j \in Range(Width(b)) |-> DotFrom(a[i], b, j, 0)]]

Transpose(m) == [j \in Range(Width(m)) |-> [i \in DOMAIN m |-> m[i][j]]]

\* m without row r and column c
Minor(m, r, c) ==
    [i \in Range(Height(m) - 1) |->
        [j \in Range(Height(m) - 1) |->
            m[IF i < r THEN i ELSE i + 1][IF j < c THEN j ELSE j + 1]]]

RECURSIVE Det(_)
RECURSIVE DetFrom(_, _)
DetFrom(m, c) ==
    IF c = Height(m) THEN RZero
    ELSE LET term == RMul(m[0][c], Det(Minor(m, 0, c)))
         IN  RAdd(IF c % 2 = 0 THEN term ELSE RNeg(term), DetFrom(m, c + 1))
Det(m) == IF Height(m) = 0 THEN ROne ELSE DetFrom(m, 0)

\* the inverse of a matrix with Det(m) # 0 (adjugate over determinant)
Inverse(m) ==
    LET d == RInv(Det(m))
    IN  [i \in DOMAIN m |->
            [j \in DOMAIN m |->
                LET cof == Det(Minor(m, j, i))
                IN  RMul(d, IF (i + j) % 2 = 0 THEN cof ELSE RNeg(cof))]]

---------------------------------------------------------------------------
(* Python results: a value, or the exception raised. *)

Return(v) == [raised |-> "none", val |-> v]
Raise(e) == [raised |-> e, val |-> <<>>]

---------------------------------------------------------------------------
(* point_spread_functions.py *)

\* one iteration (i, j) of the loops of reshape_psf, k = i * len(psf) + j
ColumnWrapped(i, j, mid, image_size) == (i + j - mid) % image_size
Column(i, j, mid, image_size) == i + j - mid

RECURSIVE reshape_loop(_, _, _, _)
reshape_loop(a, kernel, image_size, k) ==
    LET len == Cardinality(DOMAIN kernel)
        mid == len \div 2
        i == k \div len
        j == k % len
        col == Column(i, j, mid, image_size)
    IN  IF len = 0 \/ k >= image_size * len THEN a
        ELSE reshape_loop(
                 IF col \in Range(image_size)
                 THEN [a EXCEPT ![i][col] = kernel[j]]
                 ELSE a,
                 kernel, image_size, k + 1)

reshape_psf(kernel, image_size) ==
    IF image_size < 0 THEN Raise("ValueError")
    ELSE Return(reshape_loop(ZerosMatrix(image_size, image_size), kernel, image_size, 0))

\* math.exp(-t) for a rational t >= 0, as the rational 1 / (1 + t): like
\* exp(-t) it is 1 at 0, positive and strictly decreasing
exp_neg(t) == RInv(RAdd(ROne, t))

RECURSIVE VecSumFrom(_, _)
VecSumFrom(v, k) ==
    IF k = Cardinality(DOMAIN v) THEN RZero ELSE RAdd(v[k], VecSumFrom(v, k + 1))

Scale(v, c) == [i \in DOMAIN v |-> RMul(v[i], c)]

\* the kernel `res` of gaussian before reshape_psf, or the exception
gaussian_kernel(n, sigma) ==
    IF n < 0 THEN Raise("ValueError")                     \* np.zeros(n)
    ELSE IF sigma * sigma = 0 THEN Raise("ZeroDivisionError")  \* 1 / (2 pi sigma^2)
    ELSE LET a == Rat(PiDen, 2 * PiNum * sigma * sigma)
             b == 2 * sigma * sigma
             x_0 == n \div 2
             res == [x \in Range(n) |->
                        RMul(a, exp_neg(Rat((x - x_0) * (x - x_0), b)))]
             matr_sum == VecSumFrom(res, 0)
         IN  IF n = 0 THEN Raise("ZeroDivisionError")     \* 1 / matr_sum, the int 0
             ELSE Return(Scale(res, RInv(matr_sum)))

gaussian(n, sigma, image_size) ==
    LET k == gaussian_kernel(n, sigma)
    IN  IF k.raised # "none" THEN k ELSE reshape_psf(k.val, image_size)

InRadiusStrict(i, mid, r) == (i - mid) * (i - mid) < r * r
InRadius(i, mid, r) == (i - mid) * (i - mid) <= r * r

\* the kernel `res` of defocus before reshape_psf, or the exception
defocus_kernel(n, r) ==
    IF n < 0 THEN Raise("ValueError")                     \* np.zeros(n)
    ELSE IF r * r = 0 THEN Raise("ZeroDivisionError")     \* 1 / (pi r^2)
    ELSE LET elem == Rat(PiDen, PiNum * r * r)
             mid == n \div 2
             res == [i \in Range(n) |-> IF InRadius(i, mid, r) THEN elem ELSE RZero]
             matr_sum == VecSumFrom(res, 0)
         IN  IF n = 0 THEN Raise("ZeroDivisionError")     \* 1 / matr_sum, the int 0
             ELSE Return(Scale(res, RInv(matr_sum)))

defocus(n, r, image_size) ==
    LET k == defocus_kernel(n, r)
    IN  IF k.raised # "none" THEN k ELSE reshape_psf(k.val, image_size)

psf_function(kind, n, param, image_size) ==
    IF kind = "gaussian" THEN gaussian(n, param, image_size)
    ELSE defocus(n, param, image_size)

---------------------------------------------------------------------------
(* image_noise.py *)

\* the values a sample of np.random.normal(...).astype('uint8') takes here:
\* 0 for a sample in (-1, 1), 1 for a sample in [1, 2), and for a sample in
\* (-2, -1], whose conversion to uint8 is undefined, 255 (it wraps) or 0 (it
\* saturates)
NoiseLevels == {0, 1, 255}

ConstantField(shape, v) == [i \in Range(shape[1]) |-> [j \in Range(shape[2]) |-> v]]

\* the fields whose samples are within (-1, 1) but for the first one
SparseFields(shape) ==
    {[ConstantField(shape, 0) EXCEPT ![0][0] = v] : v \in NoiseLevels}

\* the arrays gaussian_noise(mean, var, image_shape) can return
gaussian_noise(mean, var, image_shape) ==
    IF var = RZero
    THEN {ConstantField(image_shape, mean[1] \div mean[2])}   \* sigma = 0: every sample is mean
    ELSE SparseFields(image_shape)

---------------------------------------------------------------------------
(* deblurring.py: helpers *)

\* an image array is [channel -> matrix]: 3 channels (color) or 1 (grayscale)
Shape0(arr) == Height(arr[0])
Shape1(arr) == Width(arr[0])

\* cv.imread(path): the decoded BGR samples as an array of 3 channels
imread_color(file) == [c \in Range(3) |-> [i \in DOMAIN file.bgr |->
                          [j \in DOMAIN file.bgr[i] |-> file.bgr[i][j][c]]]]

\* cv.imread(path, cv.IMREAD_GRAYSCALE): one channel, OpenCV's fixed-point
\* luma of the B, G, R samples
imread_gray(file) == [c \in Range(1) |-> [i \in DOMAIN file.bgr |->
                         [j \in DOMAIN file.bgr[i] |->
                             (file.bgr[i][j][0] * 1868 + file.bgr[i][j][1] * 9617
                              + file.bgr[i][j][2] * 4899 + 8192) \div 16384]]]

\* .astype(float) / 255
ToFloat(arr) == [c \in DOMAIN arr |-> [i \in DOMAIN arr[c] |->
                    [j \in DOMAIN arr[c][i] |-> Rat(arr[c][i][j], 255)]]]

\* apply_psf with `res = image` in place of np.zeros_like(image): the
\* product is written into the input array
apply_psf_inplace(color, h, ref, op) ==
    [heap |-> [h EXCEPT ![ref] = [c \in DOMAIN h[ref] |-> MatMul(op, h[ref][c])]],
     ref |-> ref]

\* apply_psf(config, image, psf) on the array h[ref]: the heap with the
\* arrays it allocates, and the reference it returns
apply_psf(color, h, ref, op) ==
    LET res == [c \in DOMAIN h[ref] |-> ZerosMatrix(Shape0(h[ref]), Shape1(h[ref]))]
        product == [c \in DOMAIN h[ref] |-> MatMul(op, h[ref][c])]
    IN  IF color
        THEN \* res[:, :, channel] = np.matmul(psf, image[:, :, channel])
             [heap |-> Append(h, product), ref |-> Len(h) + 1]
        ELSE \* res = np.matmul(psf, image): zeros_like's array is dropped
             [heap |-> Append(Append(h, res), product), ref |-> Len(h) + 2]

\* mean = 0, var = 0.1 of image_deblurring
noise_mean_configured(cfg) == cfg.mean
noise_mean(cfg) == RZero
noise_var(cfg) == Rat(1, 10)

\* the call of gaussian_noise whose field is added to channel ch
FieldIndexShared(ch) == 1
FieldIndex(ch) == ch + 1

AddField(m, f) == [i \in DOMAIN m |-> [j \in DOMAIN m[i] |-> RAdd(m[i][j], RInt(f[i][j]))]]

\* what np.linalg.svd can report of the smallest singular value: of a
\* singular operator an exact 0.0 or a float below machine epsilon,
\* whichever the rounding of the factorization leaves; else a positive value
svd(op) == IF Det(op) = RZero THEN {"zero", "negligible"} ELSE {"positive"}

HugeMatrix(n) == [i \in Range(n) |-> [j \in Range(n) |-> Huge]]

\* u @ inv(sig_2d) @ vT: the transposition order swapped
svd_inverse_transposed(op, s) ==
    IF s = "positive" THEN Transpose(Inverse(op)) ELSE HugeMatrix(Height(op))

\* vT.T @ inv(sig_2d) @ u.T for psf = u @ sig_2d @ vT: the inverse of psf;
\* with a negligible singular value s its entries, of scale 1/s, are huge or Inf
svd_inverse(op, s) ==
    IF s = "positive" THEN Inverse(op) ELSE HugeMatrix(Height(op))

---------------------------------------------------------------------------
(* The inputs of a run. *)

\* image widths
Widths == {1, 2}

\* the stored BGR samples of the test images: a diagonal gradient, and an
\* impulse in the first row
Gradient(h, w) == [i \in Range(h) |-> [j \in Range(w) |->
                      [c \in Range(3) |-> 51 * ((i + j + c) % 6)]]]
Impulse(h, w) == [i \in Range(h) |-> [j \in Range(w) |->
                     [c \in Range(3) |-> IF i = 0 /\ j = 0 THEN 255 ELSE 0]]]

InputFiles ==
    {[exists |-> FALSE, bgr |-> <<>>]} \cup
    {[exists |-> TRUE, bgr |-> b] :
        b \in UNION {{Gradient(h, w), Impulse(h, w)} : h \in 1 .. MaxSize, w \in Widths}}

\* the configured mean and var
NoiseSettings == {<<RZero, Rat(1, 10)>>, <<ROne, Rat(1, 2)>>}

Configs ==
    {[psf |-> k, n |-> n, psf_param |-> p, add_noise |-> an,
      mean |-> ns[1], var |-> ns[2], show_images |-> sh, color |-> co] :
        k \in {"gaussian", "defocus"}, n \in -1 .. MaxN, p \in -1 .. MaxParam,
        an \in BOOLEAN, ns \in NoiseSettings, sh \in BOOLEAN, co \in BOOLEAN}

NoCall == [fn |-> "none", n |-> 0, param |-> 0, kernel |-> <<>>, image_size |-> 0]
NoReturn == [raised |-> "none", res |-> <<>>, val |-> <<>>]

---------------------------------------------------------------------------
(* image_deblurring(config), statement by statement. *)

Init ==
    /\ config \in Configs
    /\ input_file \in InputFiles
    /\ pc = "read"
    /\ heap = <<>>
    /\ image = 0
    /\ blurred_image = 0
    /\ deblurred_image = 0
    /\ psf = <<>>
    /\ sig = "unset"
    /\ psf_inverse = <<>>
    /\ noise_log = <<>>
    /\ files = [blurred |-> FALSE, deblurred |-> FALSE]
    /\ raised = "none"
    /\ shown = FALSE
    /\ call = NoCall
    /\ ret = NoReturn

Fail(e) == pc' = "failed" /\ raised' = e

\* image = cv.imread(...).astype(float) / 255, read again as grayscale
\* unless config["color"]; cv.imread gives None for a file it cannot read
ReadImage ==
    /\ pc = "read"
    /\ IF ~input_file.exists
       THEN /\ Fail("AttributeError")
            /\ UNCHANGED <<heap, image>>
       ELSE /\ heap' = IF config.color
                       THEN <<ToFloat(imread_color(input_file))>>
                       ELSE <<ToFloat(imread_color(input_file)),
                              ToFloat(imread_gray(input_file))>>
            /\ image' = Len(heap')
            /\ pc' = "psf"
            /\ UNCHANGED raised
    /\ UNCHANGED <<config, input_file, blurred_image, deblurred_image, psf, sig,
                   psf_inverse, noise_log, files, shown, call, ret>>

\* psf = config["psf"](config["n"], config["psf_param"], image.shape[0])
GeneratePsf ==
    /\ pc = "psf"
    /\ LET out == psf_function(config.psf, config.n, config.psf_param,
                               Shape0(heap[image]))
       IN  IF out.raised # "none"
           THEN Fail(out.raised) /\ UNCHANGED psf
           ELSE psf' = out.val /\ pc' = "blur" /\ UNCHANGED raised
    /\ UNCHANGED <<config, input_file, heap, image, blurred_image, deblurred_image,
                   sig, psf_inverse, noise_log, files, shown, call, ret>>

\* blurred_image = apply_psf(config, image, psf)
Blur ==
    /\ pc = "blur"
    /\ LET out == apply_psf(config.color, heap, image, psf)
       IN  heap' = out.heap /\ blurred_image' = out.ref
    /\ pc' = IF config.add_noise THEN "noise" ELSE "svd"
    /\ UNCHANGED <<config, input_file, image, deblurred_image, psf, sig,
                   psf_inverse, noise_log, files, raised, shown, call, ret>>

\* blurred_image[:, :, channel] += gaussian_noise(mean, var, image_shape) for
\* each channel, or blurred_image += gaussian_noise(...) for a grayscale image
AddNoise ==
    /\ pc = "noise"
    /\ LET mean == noise_mean(config)
           var == noise_var(config)
           image_shape == <<Shape0(heap[image]), Shape1(heap[image])>>
           channels == DOMAIN heap[blurred_image]
       IN  \E fields \in [channels -> gaussian_noise(mean, var, image_shape)] :
              /\ noise_log' = [k \in 1 .. Cardinality(channels) |->
                                  [mean |-> mean, var |-> var, shape |-> image_shape,
                                   field |-> fields[k - 1]]]
              /\ heap' = [heap EXCEPT ![blurred_image] =
                             [c \in channels |->
                                 AddField(heap[blurred_image][c],
                                          noise_log'[FieldIndex(c)].field)]]
    /\ pc' = "svd"
    /\ UNCHANGED <<config, input_file, image, blurred_image, deblurred_image, psf,
                   sig, psf_inverse, files, raised, shown, call, ret>>

\* u, sig, vT = np.linalg.svd(psf)
Svd ==
    /\ pc = "svd"
    /\ sig' \in svd(psf)
    /\ pc' = "inv"
    /\ UNCHANGED <<config, input_file, heap, image, blurred_image, deblurred_image,
                   psf, psf_inverse, noise_log, files, raised, shown, call, ret>>

\* psf_inverse = vT.T @ np.linalg.inv(sig_2d) @ u.T; np.linalg.inv raises
\* LinAlgError for a diagonal entry that is exactly 0.0, and only then
Invert ==
    /\ pc = "inv"
    /\ IF sig = "zero"
       THEN Fail("LinAlgError") /\ UNCHANGED psf_inverse
       ELSE psf_inverse' = svd_inverse(psf, sig) /\ pc' = "deblur" /\ UNCHANGED raised
    /\ UNCHANGED <<config, input_file, heap, image, blurred_image, deblurred_image,
                   psf, sig, noise_log, files, shown, call, ret>>

\* deblurred_image = apply_psf(config, blurred_image, psf_inverse)
Deblur ==
    /\ pc = "deblur"
    /\ LET out == apply_psf(config.color, heap, blurred_image, psf_inverse)
       IN  heap' = out.heap /\ deblurred_image' = out.ref
    /\ pc' = "save_blurred"
    /\ UNCHANGED <<config, input_file, image, blurred_image, psf, sig, psf_inverse,
                   noise_log, files, raised, shown, call, ret>>

\* what a call of cv.imwrite does: writes the file, returns False without
\* writing (the path cannot be opened), or raises cv.error (no encoder for
\* the extension)
WriteOutcomes == {"written", "false", "error"}

\* cv.imwrite(config["blurred_image"], ...), the first line of save_images
SaveBlurred ==
    /\ pc = "save_blurred"
    /\ \E o \in WriteOutcomes :
          /\ files' = [files EXCEPT !.blurred = (o = "written")]
          /\ IF o = "error" THEN Fail("cv.error")
             ELSE pc' = "save_deblurred" /\ UNCHANGED raised
    /\ UNCHANGED <<config, input_file, heap, image, blurred_image, deblurred_image,
                   psf, sig, psf_inverse, noise_log, shown, call, ret>>

\* cv.imwrite(config["deblurred_image"], ...), the second line of save_images
SaveDeblurred ==
    /\ pc = "save_deblurred"
    /\ \E o \in WriteOutcomes :
          /\ files' = [files EXCEPT !.deblurred = (o = "written")]
          /\ IF o = "error" THEN Fail("cv.error")
             ELSE /\ pc' = IF config.show_images THEN "show" ELSE "done"
                  /\ UNCHANGED raised
    /\ UNCHANGED <<config, input_file, heap, image, blurred_image, deblurred_image,
                   psf, sig, psf_inverse, noise_log, shown, call, ret>>

\* cv.imshow x 3, cv.waitKey(0), cv.destroyAllWindows(); cv.imshow raises
\* cv.error where no display is available
ShowImages ==
    /\ pc = "show"
    /\ \E ok \in BOOLEAN :
          IF ok THEN shown' = TRUE /\ pc' = "done" /\ UNCHANGED raised
          ELSE Fail("cv.error") /\ UNCHANGED shown
    /\ UNCHANGED <<config, input_file, heap, image, blurred_image, deblurred_image,
                   psf, sig, psf_inverse, noise_log, files, call, ret>>

Next ==
    \/ ReadImage
    \/ GeneratePsf
    \/ Blur
    \/ AddNoise
    \/ Svd
    \/ Invert
    \/ Deblur
    \/ SaveBlurred
    \/ SaveDeblurred
    \/ ShowImages

Spec == Init /\ [][Next]_vars

---------------------------------------------------------------------------
(* Direct calls of the functions of point_spread_functions.py. *)

KernelValues == {RZero, ROne, Rat(1, 2)}

Kernels == UNION {[Range(len) -> KernelValues] : len \in 0 .. MaxLen}

Calls ==
    {[fn |-> f, n |-> n, param |-> p, kernel |-> <<>>, image_size |-> s] :
        f \in {"gaussian", "defocus"}, n \in -1 .. MaxLen, p \in -1 .. MaxParam + 1,
        s \in 1 .. MaxSize + 1}
    \cup
    {[fn |-> "reshape_psf", n |-> 0, param |-> 0, kernel |-> k, image_size |-> s] :
        k \in Kernels, s \in 0 .. MaxSize + 1}

InitPsf ==
    /\ call \in Calls
    /\ ret = [raised |-> "pending", res |-> <<>>, val |-> <<>>]
    /\ config = [psf |-> "gaussian", n |-> 0, psf_param |-> 0, add_noise |-> FALSE,
                 mean |-> RZero, var |-> RZero, show_images |-> FALSE, color |-> FALSE]
    /\ input_file = [exists |-> FALSE, bgr |-> <<>>]
    /\ pc = "idle"
    /\ heap = <<>>
    /\ image = 0
    /\ blurred_image = 0
    /\ deblurred_image = 0
    /\ psf = <<>>
    /\ sig = "unset"
    /\ psf_inverse = <<>>
    /\ noise_log = <<>>
    /\ files = [blurred |-> FALSE, deblurred |-> FALSE]
    /\ raised = "none"
    /\ shown = FALSE

CallGaussian ==
    /\ ret.raised = "pending"
    /\ call.fn = "gaussian"
    /\ LET out == gaussian(call.n, call.param, call.image_size)
       IN  ret' = [raised |-> out.raised,
                   res |-> gaussian_kernel(call.n, call.param).val,
                   val |-> out.val]
    /\ UNCHANGED <<call, pvars>>

CallDefocus ==
    /\ ret.raised = "pending"
    /\ call.fn = "defocus"
    /\ LET out == defocus(call.n, call.param, call.image_size)
       IN  ret' = [raised |-> out.raised,
                   res |-> defocus_kernel(call.n, call.param).val,
                   val |-> out.val]
    /\ UNCHANGED <<call, pvars>>

CallReshape ==
    /\ ret.raised = "pending"
    /\ call.fn = "reshape_psf"
    /\ LET out == reshape_psf(call.kernel, call.image_size)
       IN  ret' = [raised |-> out.raised, res |-> <<>>, val |-> out.val]
    /\ UNCHANGED <<call, pvars>>

NextPsf ==
    \/ CallGaussian
    \/ CallDefocus
    \/ CallReshape

SpecPsf == InitPsf /\ [][NextPsf]_vars

---------------------------------------------------------------------------
(* Properties. *)

Finished == pc \in {"done", "failed"}

\* what the blur stage returned for the image: psf x image, channel by channel
BlurOutput == [c \in DOMAIN heap[image] |-> MatMul(psf, heap[image][c])]

\* what has been added to each channel of the blurred array since the blur
NoiseAdded ==
    LET b == BlurOutput
    IN  [c \in DOMAIN b |-> [i \in DOMAIN b[c] |-> [j \in DOMAIN b[c][i] |->
            RSub(heap[blurred_image][c][i][j], b[c][i][j])]]]

AsRationals(f) == [i \in DOMAIN f |-> [j \in DOMAIN f[i] |-> RInt(f[i][j])]]

\* the noise stage is over
NoiseInjected == config.add_noise /\ blurred_image # 0 /\ pc # "noise"

\* the noise stage has just ended
AfterNoise == config.add_noise /\ pc = "svd"

\* C1: a finished run has either written both output images without an
\* error, or reported an error and written neither.
C1_AllOrNothing ==
    Finished =>
        \/ files.blurred /\ files.deblurred /\ raised = "none"
        \/ raised # "none" /\ ~files.blurred /\ ~files.deblurred

\* the kernel a returned direct call built its operator from
CallKernel == IF call.fn = "reshape_psf" THEN call.kernel ELSE ret.res

Min(a, b) == IF a < b THEN a ELSE b
Max(a, b) == IF a < b THEN b ELSE a

\* C2: for a kernel of length L <= S the operator is S x S with
\* Operator[i][c] = kernel[c - i + mid] for 0 <= c - i + mid < L and 0
\* elsewhere; a row has at most L nonzero entries, all of them in columns
\* [max(0, i - mid), min(S, i - mid + L)).
C2_OperatorIsClippedBand ==
    (ret.raised = "none" /\ call.fn # "none"
        /\ Cardinality(DOMAIN CallKernel) <= call.image_size) =>
        LET kernel == CallKernel
            L == Cardinality(DOMAIN kernel)
            S == call.image_size
            mid == L \div 2
            op == ret.val
        IN  /\ DOMAIN op = Range(S)
            /\ \A i \in Range(S) :
                  /\ DOMAIN op[i] = Range(S)
                  /\ \A c \in Range(S) :
                        op[i][c] = IF 0 <= c - i + mid /\ c - i + mid < L
                                   THEN kernel[c - i + mid] ELSE RZero
                  /\ Cardinality({c \in Range(S) : op[i][c] # RZero}) <= L
                  /\ \A c \in Range(S) :
                        op[i][c] # RZero =>
                            Max(0, i - mid) <= c /\ c < Min(S, i - mid + L)

\* a returned reshape_psf whose kernel of nonzero taps is clipped at row 0
C2_Witness ==
    /\ call.fn = "reshape_psf"
    /\ ret.raised = "none"
    /\ Cardinality(DOMAIN call.kernel) >= 2
    /\ Cardinality(DOMAIN call.kernel) <= call.image_size
    /\ \A j \in DOMAIN call.kernel : call.kernel[j] # RZero
    /\ ret.val[0][call.image_size - 1] = RZero

C4_SingularOperatorRejected ==
    (sig \in {"zero", "negligible"} /\ pc # "inv") =>
        /\ raised = "LinAlgError"
        /\ psf_inverse = <<>>
        /\ deblurred_image = 0

\* C5: gaussian and defocus raise for n <= 0 or a shape parameter <= 0, and
\* return neither a kernel nor an operator.
C5_InvalidParameterRejected ==
    (call.fn \in {"gaussian", "defocus"} /\ ret.raised # "pending"
        /\ (call.n <= 0 \/ call.param <= 0)) =>
        /\ ret.raised # "none"
        /\ ret.res = <<>>
        /\ ret.val = <<>>

\* C6: with a kernel longer than the image's first dimension no operator is
\* built: the run fails at the psf step and goes no further.
C6_LongKernelRejected ==
    (image # 0 /\ config.n > Shape0(heap[image]) /\ pc # "psf") =>
        /\ pc = "failed"
        /\ psf = <<>>

\* C7: for n > 0 and r >= 1, sample i of the defocus kernel is nonzero
\* exactly when (i - n // 2)^2 <= r^2, every nonzero sample is 1 / k for the
\* k samples within the radius, and the samples sum to 1.
C7_DefocusKernel ==
    (call.fn = "defocus" /\ ret.raised # "pending" /\ call.n > 0 /\ call.param >= 1) =>
        LET n == call.n
            r == call.param
            within == {i \in Range(n) : (i - n \div 2) * (i - n \div 2) <= r * r}
            k == Cardinality(within)
        IN  /\ ret.raised = "none"
            /\ DOMAIN ret.res = Range(n)
            /\ \A i \in Range(n) :
                  ret.res[i] = IF i \in within THEN Rat(1, k) ELSE RZero
            /\ VecSumFrom(ret.res, 0) = ROne

\* a returned defocus kernel with samples inside and outside the radius
C7_Witness ==
    /\ call.fn = "defocus"
    /\ ret.raised = "none"
    /\ call.n > 0
    /\ call.param >= 1
    /\ \E i \in DOMAIN ret.res : ret.res[i] = RZero
    /\ \E i \in DOMAIN ret.res : ret.res[i] # RZero

\* C8 as claimed: when the noise stage of a color run ends, one noise field
\* has been added to all three channels, so every pixel got the same noise
\* in channel 0, 1 and 2.
C8_SameFieldEveryChannel ==
    (AfterNoise /\ config.color) =>
        LET added == NoiseAdded
        IN  \A c \in Range(3) : added[c] = added[0]

\* C8 as amended: when the noise stage of a color run ends, gaussian_noise
\* has been called once per channel, each call with the image's (height,
\* width), and channel c has got the field its own call returned.
C8_FieldPerChannel ==
    (AfterNoise /\ config.color) =>
        LET added == NoiseAdded
        IN  /\ Len(noise_log) = 3
            /\ \A c \in Range(3) :
                  /\ noise_log[c + 1].shape = <<Shape0(heap[image]), Shape1(heap[image])>>
                  /\ added[c] = AsRationals(noise_log[c + 1].field)

\* a color run whose channels 0 and 1 got different fields
C8_Witness ==
    /\ AfterNoise
    /\ config.color
    /\ noise_log[1].field # noise_log[2].field

\* C9: gaussian_noise is called with mean 0 and variance 0.1 whatever the
\* configuration says, is called when add_noise is set, and is never
\* called, the blurred image staying as blurred, when it is not.
C9_HardCodedNoiseParameters ==
    /\ \A k \in 1 .. Len(noise_log) :
          noise_log[k].mean = RZero /\ noise_log[k].var = Rat(1, 10)
    /\ NoiseInjected => Len(noise_log) >= 1
    /\ ~config.add_noise =>
          /\ noise_log = <<>>
          /\ blurred_image # 0 => heap[blurred_image] = BlurOutput

\* a finished noisy run whose configured mean and var are not 0 and 0.1
C9_Witness ==
    /\ pc = "done"
    /\ config.add_noise
    /\ config.mean # RZero
    /\ config.var # Rat(1, 10)
    /\ noise_log # <<>>

\* C10 as claimed: no step changes an array that already exists.
C10_NoInPlaceMutation ==
    [][\A r \in 1 .. Len(heap) : heap'[r] = heap[r]]_vars

\* C10 as amended: arrays are only ever added; the one array a step changes
\* is the blurred array, by the noise step; the blur and the deblur return
\* arrays allocated by that step, so image, blurred_image and
\* deblurred_image are three different arrays.
C10_OnlyNoiseMutatesBlurred ==
    [][/\ Len(heap') >= Len(heap)
       /\ \A r \in 1 .. Len(heap) :
             heap'[r] # heap[r] => (pc = "noise" /\ r = blurred_image)
       /\ blurred_image' # blurred_image => blurred_image' > Len(heap)
       /\ deblurred_image' # deblurred_image => deblurred_image' > Len(heap)
       /\ blurred_image' # 0 => blurred_image' # image'
       /\ deblurred_image' # 0 => deblurred_image' \notin {image', blurred_image'}
      ]_vars

\* a run with its deblurring done whose blurred array is no longer what the
\* blur returned
C10_Witness ==
    /\ deblurred_image # 0
    /\ config.add_noise
    /\ heap[blurred_image] # BlurOutput

=============================================================================
